---- MODULE Spec2Model ----
(***************************************************************************)
(* Model of mdast-util-gfm-table (src/dev/lib/index.ts).                   *)
(*                                                                         *)
(* Spec      : the tree transform transformTable / processSpanMarkers,     *)
(*             run on one table as the builder leaves it.                  *)
(* SpecBuild : the from-markdown builder handlers (enter/exit events).     *)
(*                                                                         *)
(* Sequences are 1-based here and 0-based in the source: index j of the    *)
(* source is j+1 here, so `i < 1` reads i = 1 and `j >= length - 1` reads  *)
(* j >= Len.  An absent number (colspan, rowspan) is 0, an absent string   *)
(* property is "".                                                         *)
(***************************************************************************)
EXTENDS Integers, Sequences, FiniteSets, TLC

VARIABLES
    grid,         \* the table as span resolution found it (kept for reference)
    table,        \* the table node being transformed in place
    pc,           \* position inside transformTable
    m, i, j,      \* loop counters of processSpanMarkers (section, row, cell)
    toBeDeleted,  \* processSpanMarkers' per-section list of [i, j] points
    stack,        \* CompileContext.stack: open nodes of the builder
    inTable,      \* CompileContext.data.inTable
    inTableCell,  \* CompileContext.data.inTableCell
    code,         \* the inline code node closed last by exitCodeText
    tables,       \* number of table tokens entered so far
    opened,       \* the table token of the event handled last, and its node
    marker,       \* the marker token the tokenizer has entered and not exited
    hast,         \* the element tree the hast handlers made of the table
    ser           \* the last call of a serializer handler and its result

vars == <<grid, table, pc, m, i, j, toBeDeleted,
          stack, inTable, inTableCell, code, tables, opened, marker,
          hast, ser>>

treeVars == <<grid, table, pc, m, i, j, toBeDeleted>>
buildVars == <<stack, inTable, inTableCell, code, tables, opened, marker>>
outVars == <<hast, ser>>

-----------------------------------------------------------------------------
(* Bounds of the model.                                                    *)

MaxCells == 3      \* cells of a table, over all its rows
MaxAlign == 2      \* columns the delimiter row declares
MaxCodeLen == 3    \* characters of an inline code value
MaxTables == 2     \* tables of a document

-----------------------------------------------------------------------------
(* Nodes.                                                                  *)

Null == "null"

AlignType == {Null, "left", "right"}

mdastTypes == [tableHead |-> "tableHead", tableBody |-> "tableBody",
               tableColspanRight |-> "tableColspanRight",
               tableColspanLeft |-> "tableColspanLeft",
               tableRowspan |-> "tableRowspan"]

Text(v) == [type |-> "text", value |-> v]

Marker(t) == [type |-> t, value |-> ""]

NoProperties == [align |-> "", colspan |-> 0, rowspan |-> 0]

\* A cell as enterCell / enterHeader push it; id is the node's identity
\* (the place where the cell stood when the transform started).
NewCell(id, hName, children) ==
    [type |-> "tableCell", id |-> id, children |-> children,
     colspan |-> 0, rowspan |-> 0,
     data |-> [hName |-> hName, hProperties |-> NoProperties]]

makeCell(id) == NewCell(id, "td", <<>>)

OrOne(n) == IF n = 0 THEN 1 ELSE n

isCellColspanRight(cell) ==
    IF Len(cell.children) # 1
    THEN FALSE
    ELSE cell.children[1].type = "tableColspanRight"

\* Variant: a ColspanLeft marker is left in place.
marker2text_KeepLeft(cell) ==
    IF Len(cell.children) # 1
    THEN cell
    ELSE LET t == cell.children[1].type
         IN  CASE t = "tableColspanRight" -> [cell EXCEPT !.children = <<Text(">")>>]
               [] t = "tableRowspan" -> [cell EXCEPT !.children = <<Text("^")>>]
               [] OTHER -> cell

marker2text(cell) ==
    IF Len(cell.children) # 1
    THEN cell
    ELSE LET t == cell.children[1].type
             text == CASE t = mdastTypes.tableColspanRight -> ">"
                       [] t = mdastTypes.tableRowspan -> "^"
                       [] t = mdastTypes.tableColspanLeft -> ""
                       [] OTHER -> ""
         IN  IF text = ""
             THEN [cell EXCEPT !.children = <<>>]
             ELSE [cell EXCEPT !.children = <<Text(text)>>]

-----------------------------------------------------------------------------
(* The tables the builder hands to the transform: an optional head section *)
(* of one row followed by a body section, every row with at least one      *)
(* cell, every cell holding one text node or one span marker.              *)

CellContent == {<<Text("a")>>,
                <<Marker(mdastTypes.tableColspanRight)>>,
                <<Marker(mdastTypes.tableColspanLeft)>>,
                <<Marker(mdastTypes.tableRowspan)>>}

RECURSIVE SumTo(_, _)
SumTo(shape, n) == IF n = 0 THEN 0 ELSE shape[n] + SumTo(shape, n - 1)

\* Row lengths of a table, first row first.
Shapes == {shape \in UNION {[1..r -> 1..MaxCells] : r \in 1..MaxCells} :
             SumTo(shape, Len(shape)) <= MaxCells}

Aligns == UNION {[1..n -> AlignType] : n \in 1..MaxAlign}

\* The section with index sec made of rows first..last of the shape.
NewSection(type, hName, sec, shape, flat, first, last) ==
    [type |-> type,
     children |->
        [r \in 1..(last - first + 1) |->
            [type |-> "tableRow",
             children |->
                [c \in 1..shape[first + r - 1] |->
                    NewCell(<<sec, r, c>>, hName,
                            flat[SumTo(shape, first + r - 2) + c])],
             data |-> [hName |-> "tr"]]],
     data |-> [hName |-> IF type = mdastTypes.tableHead
                         THEN "thead" ELSE "tbody"]]

NewTable(align, shape, flat, head) ==
    [type |-> "table",
     align |-> align,
     children |->
        IF head = 0
        THEN <<NewSection(mdastTypes.tableBody, "td", 1, shape, flat, 1, Len(shape))>>
        ELSE IF Len(shape) = 1
        THEN <<NewSection(mdastTypes.tableHead, "th", 1, shape, flat, 1, 1)>>
        ELSE <<NewSection(mdastTypes.tableHead, "th", 1, shape, flat, 1, 1),
               NewSection(mdastTypes.tableBody, "td", 2, shape, flat, 2, Len(shape))>>,
     data |-> [hName |-> "table"]]

\* The cell contents of a table of the given shape, row after row.
Contents(shape) == [1..SumTo(shape, Len(shape)) -> CellContent]

-----------------------------------------------------------------------------
(* transformTable, first phase: pad short rows.                            *)

\* Variant: the padding stops one cell short of the column count.
PadRow_Short(row, n, sec, r) ==
    [row EXCEPT !.children =
        @ \o [k \in 1..(n - 1 - Len(row.children)) |->
                makeCell(<<sec, r, Len(row.children) + k>>)]]

RECURSIVE PadRow(_, _, _, _)
\* while (row.children.length < n) row.children.push(makeCell())
PadRow(row, n, sec, r) ==
    IF Len(row.children) >= n
    THEN row
    ELSE PadRow([row EXCEPT !.children =
                    Append(@, makeCell(<<sec, r, Len(row.children) + 1>>))],
                n, sec, r)

PadTable(t) ==
    [t EXCEPT !.children =
        [sec \in 1..Len(t.children) |->
            [t.children[sec] EXCEPT !.children =
                [r \in 1..Len(t.children[sec].children) |->
                    PadRow(t.children[sec].children[r], Len(t.align), sec, r)]]]]

-----------------------------------------------------------------------------
(* processSpanMarkers: the work done for one cell.                         *)

\* Variant: the column index is taken one too low.
SetAlign_Shifted(cell, align, col) ==
    IF col > 1 /\ col - 1 <= Len(align) /\ align[col - 1] # Null
    THEN [cell EXCEPT !.data.hProperties.align = align[col - 1]]
    ELSE cell

\* if (align[j]) properties.align = align[j]
SetAlign(cell, align, col) ==
    IF col <= Len(align) /\ align[col] # Null
    THEN [cell EXCEPT !.data.hProperties.align = align[col]]
    ELSE cell

AddColspan(cell, n) ==
    [cell EXCEPT !.colspan = OrOne(cell.colspan) + n,
                 !.data.hProperties.colspan = OrOne(cell.colspan) + n]

AddRowspan(cell, n) ==
    [cell EXCEPT !.rowspan = OrOne(cell.rowspan) + n,
                 !.data.hProperties.rowspan = OrOne(cell.rowspan) + n]

\* Variant: only the adjacent cell is bumped, the scan never goes on.
SpanRight_NoChain(cells, col, k) ==
    [cells EXCEPT ![col + k] = AddColspan(@, 1)]

\* Variant: the alignment of the absorbed column is put on the neighbour.
SpanRight_Align(cells, col, k) ==
    [cells EXCEPT ![col + k] =
        [AddColspan(@, 1) EXCEPT !.data.hProperties.align =
            cells[col].data.hProperties.align]]

RECURSIVE SpanRight(_, _, _)
\* for (k = 1; j + k < length; k++) { next.colspan += 1; if (!CR(next)) break }
SpanRight(cells, col, k) ==
    IF col + k > Len(cells)
    THEN cells
    ELSE LET next == cells[col + k]
             bumped == [cells EXCEPT ![col + k] = AddColspan(next, 1)]
         IN  IF ~isCellColspanRight(next)
             THEN bumped
             ELSE SpanRight(bumped, col, k + 1)

\* Each case yields the section's rows, whether [i, j] is pushed on
\* toBeDeleted, and whether the step raised.
Outcome(rows, del, threw) == [rows |-> rows, del |-> del, threw |-> threw]

caseColspanRight(rows, row, col) ==
    LET cells == rows[row].children
    IN  IF col >= Len(cells)
        THEN Outcome([rows EXCEPT ![row].children[col] = marker2text(@)],
                     FALSE, FALSE)
        ELSE Outcome([rows EXCEPT ![row].children = SpanRight(@, col, 1)],
                     TRUE, FALSE)

\* Variant: a merge adds 1, not the marker cell's own rowspan.
caseRowspan_AddOne(rows, row, col) ==
    IF row = 1
    THEN Outcome([rows EXCEPT ![row].children[col] = marker2text(@)],
                 FALSE, FALSE)
    ELSE IF col > Len(rows[row - 1].children)
    THEN Outcome(rows, FALSE, TRUE)
    ELSE Outcome([rows EXCEPT ![row - 1].children[col] = AddRowspan(@, 1)],
                 TRUE, FALSE)

\* Variant: a marker in the first row of a section is deleted, not demoted.
caseRowspan_DropFirst(rows, row, col) ==
    IF row = 1
    THEN Outcome(rows, TRUE, FALSE)
    ELSE IF col > Len(rows[row - 1].children)
    THEN Outcome(rows, FALSE, TRUE)
    ELSE Outcome([rows EXCEPT ![row - 1].children[col] =
                     AddRowspan(@, OrOne(rows[row].children[col].rowspan))],
                 TRUE, FALSE)

caseRowspan(rows, row, col) ==
    LET cell == rows[row].children[col]
    IN  IF row = 1
        THEN Outcome([rows EXCEPT ![row].children[col] = marker2text(@)],
                     FALSE, FALSE)
        ELSE IF col > Len(rows[row - 1].children)
        THEN \* previous is undefined: previous.data raises a TypeError
             Outcome(rows, FALSE, TRUE)
        ELSE Outcome([rows EXCEPT ![row - 1].children[col] =
                         AddRowspan(@, OrOne(cell.rowspan))],
                     TRUE, FALSE)

\* Variant: a merge adds 1, not the marker cell's own colspan.
caseColspanLeft_AddOne(rows, row, col) ==
    IF col = 1 \/ isCellColspanRight(rows[row].children[col - 1])
    THEN Outcome([rows EXCEPT ![row].children[col] = marker2text(@)],
                 FALSE, FALSE)
    ELSE Outcome([rows EXCEPT ![row].children[col - 1] = AddColspan(@, 1)],
                 TRUE, FALSE)

\* Variant: a ColspanRight marker on the left is not seen as a conflict.
caseColspanLeft_NoConflict(rows, row, col) ==
    IF col = 1
    THEN Outcome([rows EXCEPT ![row].children[col] = marker2text(@)],
                 FALSE, FALSE)
    ELSE Outcome([rows EXCEPT ![row].children[col - 1] =
                     AddColspan(@, OrOne(rows[row].children[col].colspan))],
                 TRUE, FALSE)

caseColspanLeft(rows, row, col) ==
    LET cells == rows[row].children
    IN  IF col = 1 \/ isCellColspanRight(cells[col - 1])
        THEN Outcome([rows EXCEPT ![row].children[col] = marker2text(@)],
                     FALSE, FALSE)
        ELSE Outcome([rows EXCEPT ![row].children[col - 1] =
                         AddColspan(@, OrOne(cells[col].colspan))],
                     TRUE, FALSE)

\* Variant: the first child decides, however many children the cell has.
visitCell_First(rows, align, row, col) ==
    LET aligned == [rows EXCEPT ![row].children[col] = SetAlign(@, align, col)]
        cell == aligned[row].children[col]
    IN  IF Len(cell.children) = 0
        THEN Outcome(aligned, FALSE, FALSE)
        ELSE CASE cell.children[1].type = mdastTypes.tableColspanRight ->
                      caseColspanRight(aligned, row, col)
               [] cell.children[1].type = mdastTypes.tableRowspan ->
                      caseRowspan(aligned, row, col)
               [] cell.children[1].type = mdastTypes.tableColspanLeft ->
                      caseColspanLeft(aligned, row, col)
               [] OTHER -> Outcome(aligned, FALSE, FALSE)

\* The body of the innermost loop for the cell at [row, col] of rows.
visitCell(rows, align, row, col) ==
    LET aligned == [rows EXCEPT ![row].children[col] = SetAlign(@, align, col)]
        cell == aligned[row].children[col]
    IN  IF Len(cell.children) # 1
        THEN Outcome(aligned, FALSE, FALSE)
        ELSE CASE cell.children[1].type = mdastTypes.tableColspanRight ->
                      caseColspanRight(aligned, row, col)
               [] cell.children[1].type = mdastTypes.tableRowspan ->
                      caseRowspan(aligned, row, col)
               [] cell.children[1].type = mdastTypes.tableColspanLeft ->
                      caseColspanLeft(aligned, row, col)
               [] OTHER -> Outcome(aligned, FALSE, FALSE)

\* Array.prototype.splice(j, 1)
splice(cells, col) ==
    [k \in 1..(Len(cells) - 1) |-> IF k < col THEN cells[k] ELSE cells[k + 1]]

-----------------------------------------------------------------------------
(* Loop control of processSpanMarkers.                                     *)

RECURSIVE RowFrom(_, _, _)
\* Variant: the cell loop of a row starts at its first cell.
RowFrom_First(t, sec, row) ==
    IF row = 0
    THEN [pc |-> "splice", m |-> sec, i |-> 0, j |-> 0]
    ELSE IF Len(t.children[sec].children[row].children) = 0
    THEN RowFrom(t, sec, row - 1)
    ELSE [pc |-> "cell", m |-> sec, i |-> row, j |-> 1]

\* Where the loops stand when the row loop of section sec reaches row.
RowFrom(t, sec, row) ==
    IF row = 0
    THEN [pc |-> "splice", m |-> sec, i |-> 0, j |-> 0]
    ELSE IF Len(t.children[sec].children[row].children) = 0
    THEN RowFrom(t, sec, row - 1)
    ELSE [pc |-> "cell", m |-> sec, i |-> row,
          j |-> Len(t.children[sec].children[row].children)]

\* Where the loops stand when the section loop reaches sec.
SectionFrom(t, sec) ==
    IF sec = 0
    THEN [pc |-> "done", m |-> 0, i |-> 0, j |-> 0]
    ELSE RowFrom(t, sec, Len(t.children[sec].children))

Goto(at) ==
    /\ pc' = at.pc
    /\ m' = at.m
    /\ i' = at.i
    /\ j' = at.j

-----------------------------------------------------------------------------
(* Actions of the transform.                                               *)

InitTree ==
    /\ \E shape \in Shapes, align \in Aligns, head \in {0, 1} :
          \E flat \in Contents(shape) :
             table = NewTable(align, shape, flat, head)
    /\ grid = table
    /\ pc = "transform"
    /\ m = 0 /\ i = 0 /\ j = 0
    /\ toBeDeleted = <<>>

InitBuild ==
    /\ stack = <<>>
    /\ inTable = FALSE
    /\ inTableCell = FALSE
    /\ code = [raw |-> <<>>, value |-> <<>>, open |-> FALSE, after |-> 0]
    /\ tables = 0
    /\ opened = [token |-> [type |-> "none"], nodes |-> <<>>]
    /\ marker = ""

\* Nothing has been projected or serialized.
InitOut ==
    /\ hast = <<>>
    /\ ser = [handler |-> "none"]

Init == InitTree /\ InitBuild /\ InitOut

\* transformTable up to the call of processSpanMarkers and the start of its
\* loops.
PadRows ==
    /\ pc = "transform"
    /\ table' = PadTable(table)
    /\ grid' = table'
    /\ toBeDeleted' = <<>>
    /\ Goto(SectionFrom(table', Len(table.children)))
    /\ UNCHANGED <<buildVars, outVars>>

\* One iteration of the cell loop.
VisitCell ==
    /\ pc = "cell"
    /\ LET out == visitCell(table.children[m].children, table.align, i, j)
       IN  /\ table' = [table EXCEPT !.children[m].children = out.rows]
           /\ toBeDeleted' = IF out.del THEN Append(toBeDeleted, <<i, j>>)
                                        ELSE toBeDeleted
           /\ IF out.threw
              THEN pc' = "threw" /\ UNCHANGED <<m, i, j>>
              ELSE IF j > 1
              THEN j' = j - 1 /\ UNCHANGED <<pc, m, i>>
              ELSE Goto(RowFrom(table, m, i - 1))
    /\ UNCHANGED <<grid, buildVars, outVars>>

\* Variant: the points are taken from the end of the list.
SpliceDeleted_Backwards ==
    /\ pc = "splice"
    /\ toBeDeleted # <<>>
    /\ LET point == toBeDeleted[Len(toBeDeleted)]
       IN  table' = [table EXCEPT
                !.children[m].children[point[1]].children = splice(@, point[2])]
    /\ toBeDeleted' = SubSeq(toBeDeleted, 1, Len(toBeDeleted) - 1)
    /\ UNCHANGED <<grid, pc, m, i, j, buildVars, outVars>>

\* One iteration of `for (const point of toBeDeleted)`.
SpliceDeleted ==
    /\ pc = "splice"
    /\ toBeDeleted # <<>>
    /\ LET point == Head(toBeDeleted)
       IN  table' = [table EXCEPT
                !.children[m].children[point[1]].children = splice(@, point[2])]
    /\ toBeDeleted' = Tail(toBeDeleted)
    /\ UNCHANGED <<grid, pc, m, i, j, buildVars, outVars>>

\* The deletions of a section are applied: on to the section before it.
NextSection ==
    /\ pc = "splice"
    /\ toBeDeleted = <<>>
    /\ Goto(SectionFrom(table, m - 1))
    /\ UNCHANGED <<grid, table, toBeDeleted, buildVars, outVars>>

-----------------------------------------------------------------------------
(* The transform as a function of the table, for a run that follows the    *)
(* first: the same loops, from the cell at [row, col] to the first cell of *)
(* the first row, then the splices.  A run that raises yields the table as *)
(* the raise left it.                                                      *)

RECURSIVE visitFrom(_, _, _, _, _)
\* The row loop and the cell loop of one section, from [row, col] on.
visitFrom(rows, align, row, col, del) ==
    IF row = 0
    THEN Outcome(rows, del, FALSE)
    ELSE IF col = 0
    THEN visitFrom(rows, align, row - 1,
                   IF row > 1 THEN Len(rows[row - 1].children) ELSE 0, del)
    ELSE LET out == visitCell(rows, align, row, col)
         IN  IF out.threw
             THEN Outcome(out.rows, del, TRUE)
             ELSE visitFrom(out.rows, align, row, col - 1,
                            IF out.del THEN Append(del, <<row, col>>) ELSE del)

RECURSIVE spliceAll(_, _)
\* for (const point of toBeDeleted) rows.children[i].children.splice(j, 1)
spliceAll(rows, del) ==
    IF del = <<>>
    THEN rows
    ELSE spliceAll([rows EXCEPT ![Head(del)[1]].children =
                       splice(@, Head(del)[2])],
                   Tail(del))

\* One iteration of the section loop.
visitSection(sec, align) ==
    LET rows == sec.children
        out == visitFrom(rows, align, Len(rows),
                         IF rows = <<>> THEN 0
                         ELSE Len(rows[Len(rows)].children),
                         <<>>)
    IN  [node |-> [sec EXCEPT !.children =
                      IF out.threw THEN out.rows
                      ELSE spliceAll(out.rows, out.del)],
         threw |-> out.threw]

processSpanMarkers(t) ==
    LET done == [s \in 1..Len(t.children) |-> visitSection(t.children[s], t.align)]
    IN  [table |-> [t EXCEPT !.children =
                       [s \in 1..Len(t.children) |-> done[s].node]],
         threw |-> \E s \in 1..Len(t.children) : done[s].threw]

transformTable(t) == processSpanMarkers(PadTable(t))

-----------------------------------------------------------------------------
(* The hast handlers: table, tableHead, tableBody and tableRow are handled *)
(* by applyData with wrap, tableCell by applyData without.  state.all      *)
(* hands every child of a node to the handler of its type; state.wrap      *)
(* puts a line feed before, between and after the elements.                *)

LineFeed == [type |-> "text", value |-> "\n"]

\* state.wrap(children, true)
wrap(nodes) ==
    IF nodes = <<>>
    THEN <<LineFeed>>
    ELSE [k \in 1..(2 * Len(nodes) + 1) |->
            IF k % 2 = 1 THEN LineFeed ELSE nodes[k \div 2]]

\* Variant: a rowspan is not copied.
Assign_NoRowspan(hProperties) ==
    [key \in {k \in {"align", "colspan"} :
                IF k = "align" THEN hProperties.align # ""
                               ELSE hProperties[k] # 0} |-> hProperties[key]]

\* Object.assign(result.properties, structuredClone(hProperties)): the
\* entries hProperties holds.
Assign(hProperties) ==
    [key \in {k \in {"align", "colspan", "rowspan"} :
                IF k = "align" THEN hProperties.align # ""
                               ELSE hProperties[k] # 0} |-> hProperties[key]]

HastHandled == {"table", mdastTypes.tableHead, mdastTypes.tableBody,
                "tableRow", "tableCell"}

RECURSIVE applyData(_, _)
\* state.all(node): one hast node for every child, in order.
all(node) ==
    [k \in 1..Len(node.children) |->
        LET child == node.children[k]
        IN  IF child.type \in HastHandled
            THEN applyData(child, child.type # "tableCell")
            ELSE [type |-> "text", value |-> child.value]]

applyData(node, wrapped) ==
    [type |-> "element",
     tagName |-> node.data.hName,
     properties |-> IF "hProperties" \in DOMAIN node.data
                    THEN Assign(node.data.hProperties)
                    ELSE Assign(NoProperties),
     children |-> IF wrapped THEN wrap(all(node)) ELSE all(node)]

\* toHast(tree, {handlers: gfmTableHastHandlers()}) reaches the table.
toHast ==
    /\ pc = "done"
    /\ hast' = <<applyData(table, TRUE)>>
    /\ pc' = "projected"
    /\ UNCHANGED <<grid, table, m, i, j, toBeDeleted, buildVars, ser>>

Next == PadRows \/ VisitCell \/ SpliceDeleted \/ NextSection \/ toHast

Spec == Init /\ [][Next]_vars

-----------------------------------------------------------------------------
(* The same transform on tables whose cells are not all one text or one    *)
(* marker: a cell without children, a marker next to a text, and the sole  *)
(* markers beside them.                                                    *)

MixedContent == {<<>>,
                 <<Marker(mdastTypes.tableColspanRight), Text("a")>>,
                 <<Text("a"), Marker(mdastTypes.tableRowspan)>>,
                 <<Marker(mdastTypes.tableColspanRight)>>,
                 <<Marker(mdastTypes.tableColspanLeft)>>,
                 <<Marker(mdastTypes.tableRowspan)>>}

\* Every declared column is aligned to the left.
MixedAligns == {[k \in 1..n |-> "left"] : n \in 1..MaxAlign}

InitMixedTree ==
    /\ \E shape \in Shapes, align \in MixedAligns, head \in {0, 1} :
          \E flat \in [1..SumTo(shape, Len(shape)) -> MixedContent] :
             table = NewTable(align, shape, flat, head)
    /\ grid = table
    /\ pc = "transform"
    /\ m = 0 /\ i = 0 /\ j = 0
    /\ toBeDeleted = <<>>

InitMixed == InitMixedTree /\ InitBuild /\ InitOut

SpecMixed == InitMixed /\ [][Next]_vars

-----------------------------------------------------------------------------
(* The builder: the handlers gfmTableFromMarkdown registers.  The stack    *)
(* holds the types of the open nodes; the tokenizer's events nest (a row   *)
(* in a section, a cell in a row) and a table is never opened in a table.  *)
(* Inline code occurs in a cell or in the text around the tables.  A       *)
(* marker token is a leaf: nothing is entered before it is exited; the     *)
(* handlers do not depend on where the tokenizer emits it, and the model   *)
(* lets it arrive at any position.  A handler that raises ends the         *)
(* compilation: pc becomes "raised" and no handler runs after it.          *)

Chars == {"\\", "|", "a"}

CodeValues == UNION {[1..n -> Chars] : n \in 0..MaxCodeLen}

\* The values micromark gives an entry of token._align.
TokenAlign == {"none", "left", "right", "center"}

\* A table token, with or without its _align.
TableTokens ==
    {[type |-> "table"]} \cup
    {[type |-> "table", _align |-> align] :
        align \in UNION {[1..n -> TokenAlign] : n \in 0..MaxAlign}}

MarkerTypes == {mdastTypes.tableColspanRight, mdastTypes.tableColspanLeft,
                mdastTypes.tableRowspan}

Top == IF stack = <<>> THEN "root" ELSE stack[Len(stack)]

TableOpen == \E k \in 1..Len(stack) : stack[k] = "table"

\* No table token is being handled.
NotOpened == [token |-> [type |-> "none"], nodes |-> <<>>]

\* A handler can run: nothing has raised and no marker token is open.
Ready == pc = "build" /\ marker = ""

\* this.enter(node, token)
enter(type) == stack' = Append(stack, type)

\* this.exit(token)
exit == stack' = SubSeq(stack, 1, Len(stack) - 1)

\* Variant: the escaped character is kept, whichever it is.
replace_Both(a, b) == <<b>>

\* Pipes work, backslashes don't (but can't escape pipes).
replace(a, b) == IF b = "|" THEN <<b>> ELSE a

RECURSIVE unescape(_)
\* value.replace(/\\([\\|])/g, replace)
unescape(value) ==
    IF value = <<>>
    THEN <<>>
    ELSE IF value[1] = "\\" /\ Len(value) >= 2 /\ value[2] \in {"\\", "|"}
    THEN replace(SubSeq(value, 1, 2), value[2])
            \o unescape(SubSeq(value, 3, Len(value)))
    ELSE <<value[1]>> \o unescape(Tail(value))

\* Variant: the sentinel 'none' is kept as it is.
alignOf_KeepNone(d) == d

\* function (d) { return d === 'none' ? null : d }
alignOf(d) == IF d = "none" THEN Null ELSE d

\* The node enterTable makes for a token that carries _align.
TableNode(token) ==
    [type |-> "table",
     align |-> [k \in 1..Len(token._align) |-> alignOf(token._align[k])],
     children |-> <<>>,
     data |-> [hName |-> "table"]]

enterTable ==
    /\ Ready
    /\ ~TableOpen
    /\ tables < MaxTables
    /\ tables' = tables + 1
    /\ \E token \in TableTokens :
          IF "_align" \notin DOMAIN token
          THEN \* assert(align, 'expected `_align` on table') raises
               /\ pc' = "raised"
               /\ opened' = [token |-> token, nodes |-> <<>>]
               /\ UNCHANGED <<stack, inTable>>
          ELSE /\ enter("table")
               /\ opened' = [token |-> token, nodes |-> <<TableNode(token)>>]
               /\ inTable' = TRUE
               /\ pc' = pc
    /\ UNCHANGED <<inTableCell, code, marker, outVars,
                   grid, table, m, i, j, toBeDeleted>>

\* Variant: the flag is not cleared when the table is closed.
exitTable_KeepFlag ==
    /\ Ready
    /\ Top = "table"
    /\ exit
    /\ opened' = NotOpened
    /\ UNCHANGED <<inTable, inTableCell, code, tables, marker,
                   treeVars, outVars>>

exitTable ==
    /\ Ready
    /\ Top = "table"
    /\ exit
    /\ inTable' = FALSE
    /\ opened' = NotOpened
    /\ UNCHANGED <<inTableCell, code, tables, marker,
                   treeVars, outVars>>

enterRow ==
    /\ Ready
    /\ Top \in {mdastTypes.tableHead, mdastTypes.tableBody}
    /\ enter("tableRow")
    /\ opened' = NotOpened
    /\ UNCHANGED <<inTable, inTableCell, code, tables, marker,
                   treeVars, outVars>>

\* exit of tableData, tableHeader and tableRow
exitNode ==
    /\ Ready
    /\ Top \in {"tableCell", "tableRow"}
    /\ exit
    /\ opened' = NotOpened
    /\ UNCHANGED <<inTable, inTableCell, code, tables, marker,
                   treeVars, outVars>>

enterCell ==
    /\ Ready
    /\ Top = "tableRow"
    /\ stack[Len(stack) - 1] = mdastTypes.tableBody
    /\ enter("tableCell")
    /\ opened' = NotOpened
    /\ UNCHANGED <<inTable, inTableCell, code, tables, marker,
                   treeVars, outVars>>

enterHead ==
    /\ Ready
    /\ Top = "table"
    /\ enter(mdastTypes.tableHead)
    /\ inTableCell' = TRUE
    /\ opened' = NotOpened
    /\ UNCHANGED <<inTable, code, tables, marker, treeVars, outVars>>

enterHeader ==
    /\ Ready
    /\ Top = "tableRow"
    /\ stack[Len(stack) - 1] = mdastTypes.tableHead
    /\ enter("tableCell")
    /\ opened' = NotOpened
    /\ UNCHANGED <<inTable, inTableCell, code, tables, marker,
                   treeVars, outVars>>

enterBody ==
    /\ Ready
    /\ Top = "table"
    /\ enter(mdastTypes.tableBody)
    /\ inTableCell' = TRUE
    /\ opened' = NotOpened
    /\ UNCHANGED <<inTable, code, tables, marker, treeVars, outVars>>

\* if (this.data.inTableCell) this.enter({type}, token)
enterMarker(type) ==
    /\ Ready
    /\ marker' = type
    /\ IF inTableCell THEN enter(type) ELSE UNCHANGED stack
    /\ opened' = NotOpened
    /\ UNCHANGED <<inTable, inTableCell, code, tables, treeVars, outVars>>

enterColspanRightMarker == enterMarker(mdastTypes.tableColspanRight)

enterColspanLeftMarker == enterMarker(mdastTypes.tableColspanLeft)

enterRowspanMarker == enterMarker(mdastTypes.tableRowspan)

\* exit of the three marker tokens: this.exit(token) closes the node on top
\* of the stack, and raises when that node was not opened by the token.
exitMarker ==
    /\ pc = "build"
    /\ marker # ""
    /\ marker' = ""
    /\ IF Top = marker
       THEN exit /\ pc' = pc
       ELSE pc' = "raised" /\ UNCHANGED stack
    /\ opened' = NotOpened
    /\ UNCHANGED <<inTable, inTableCell, code, tables, outVars,
                   grid, table, m, i, j, toBeDeleted>>

\* The inline code node is opened by the default handler; resume() yields
\* the text collected since.
exitCodeText ==
    /\ Ready
    /\ Top \in {"root", "tableCell"}
    /\ \E value \in CodeValues :
          code' = [raw |-> value,
                   value |-> IF inTable THEN unescape(value) ELSE value,
                   open |-> TableOpen,
                   after |-> tables]
    /\ opened' = NotOpened
    /\ UNCHANGED <<stack, inTable, inTableCell, tables, marker,
                   treeVars, outVars>>

exitSection ==
    /\ Ready
    /\ Top \in {mdastTypes.tableHead, mdastTypes.tableBody}
    /\ exit
    /\ inTableCell' = FALSE
    /\ opened' = NotOpened
    /\ UNCHANGED <<inTable, code, tables, marker, treeVars, outVars>>

\* No table is under transformation while the document is being built.
InitIdle ==
    /\ table = [type |-> "table", align |-> <<>>, children |-> <<>>,
                data |-> [hName |-> "table"]]
    /\ grid = table
    /\ pc = "build"
    /\ m = 0 /\ i = 0 /\ j = 0
    /\ toBeDeleted = <<>>

NextBuild ==
    \/ enterTable \/ exitTable
    \/ enterHead \/ enterBody \/ exitSection
    \/ enterRow \/ enterCell \/ enterHeader \/ exitNode
    \/ enterColspanRightMarker \/ enterColspanLeftMarker
    \/ enterRowspanMarker \/ exitMarker
    \/ exitCodeText

InitDoc == InitIdle /\ InitBuild /\ InitOut

SpecBuild == InitDoc /\ [][NextBuild]_vars

-----------------------------------------------------------------------------
(* The serializer: the handlers gfmTableToMarkdown registers.  A string is *)
(* a sequence of characters.  An option that is not given is "undefined".  *)
(* The handlers call into mdast-util-to-markdown (state.containerPhrasing, *)
(* state.safe, defaultHandlers.inlineCode) and markdown-table; these are   *)
(* modelled by what they do to the characters of the model.                *)

Flag == {"undefined", "true", "false"}

Options == [tableCellPadding : Flag, tablePipeAlign : Flag]

\* gfmTableToMarkdown() and gfmTableToMarkdown({}): settings = {}
NoOptions == [tableCellPadding |-> "undefined", tablePipeAlign |-> "undefined"]

\* The values the handlers close over; stringLength is left at its default.
gfmTableToMarkdown(options) ==
    [padding |-> options.tableCellPadding,
     alignDelimiters |-> options.tablePipeAlign,
     around |-> IF options.tableCellPadding = "true" THEN " " ELSE "|"]

Max(a, b) == IF a >= b THEN a ELSE b

Maximum(S) == IF S = {} THEN 0 ELSE CHOOSE x \in S : \A y \in S : y <= x

\* ch.repeat(n)
Repeat(ch, n) == [k \in 1..n |-> ch]

RECURSIVE Join(_, _)
\* parts.join(separator)
Join(parts, separator) ==
    IF parts = <<>>
    THEN <<>>
    ELSE IF Len(parts) = 1
    THEN parts[1]
    ELSE parts[1] \o separator \o Join(Tail(parts), separator)

\* markdown-table's toAlignment: the first letter of the value, if c, l or r
toAlignment(value) ==
    CASE value = "center" -> "c"
      [] value = "left" -> "l"
      [] value = "right" -> "r"
      [] OTHER -> ""

\* markdownTable(table, {align, alignDelimiters, padding, stringLength})
markdownTable(matrix, o) ==
    LET most == Maximum({Len(matrix[r]) : r \in 1..Len(matrix)})
        aligned == o.alignDelimiters # "false"
        padded == o.padding # "false"
        letter(c) == toAlignment(IF c <= Len(o.align) THEN o.align[c] ELSE Null)
        opening(c) == IF letter(c) \in {"c", "l"} THEN <<":">> ELSE <<>>
        closing(c) == IF letter(c) \in {"c", "r"} THEN <<":">> ELSE <<>>
        content(c) ==
            Maximum({Len(matrix[r][c]) :
                        r \in {q \in 1..Len(matrix) : Len(matrix[q]) >= c}})
        dashes(c) ==
            IF aligned
            THEN Max(1, content(c) - Len(opening(c)) - Len(closing(c)))
            ELSE 1
        delimiter == [c \in 1..most |->
                        opening(c) \o Repeat("-", dashes(c)) \o closing(c)]
        longest(c) == Max(content(c), Len(delimiter[c]))
        \* cellMatrix.splice(1, 0, row)
        cellMatrix ==
            IF matrix = <<>>
            THEN <<delimiter>>
            ELSE <<matrix[1]>> \o <<delimiter>> \o Tail(matrix)
        part(row, c) ==
            LET cell == IF c <= Len(row) THEN row[c] ELSE <<>>
                size == longest(c) - Len(cell)
                before == CASE letter(c) = "r" -> Repeat(" ", size)
                            [] letter(c) = "c" -> Repeat(" ", (size + 1) \div 2)
                            [] OTHER -> <<>>
                after == CASE letter(c) = "r" -> <<>>
                           [] letter(c) = "c" -> Repeat(" ", size \div 2)
                           [] OTHER -> Repeat(" ", size)
            IN  (IF c = 1 THEN <<"|">> ELSE <<>>)
                \o (IF padded /\ ~(~aligned /\ cell = <<>>) THEN <<" ">> ELSE <<>>)
                \o (IF aligned THEN before ELSE <<>>)
                \o cell
                \o (IF aligned THEN after ELSE <<>>)
                \o (IF padded THEN <<" ">> ELSE <<>>)
                \o <<"|">>
        line(row) == Join([c \in 1..most |-> part(row, c)], <<>>)
    IN  Join([r \in 1..Len(cellMatrix) |-> line(cellMatrix[r])], <<"\n">>)

\* The grave accent, which a string of this language cannot hold.
Grave == "grave"

\* defaultHandlers.inlineCode for a value without grave accents, spaces and
\* line endings: the value between two grave accents.
defaultInlineCode(node) == <<Grave>> \o node.value \o <<Grave>>

RECURSIVE escapePipes_First(_)
\* Variant: the expression has no g flag, the first pipe only is prefixed.
escapePipes_First(value) ==
    IF value = <<>>
    THEN <<>>
    ELSE IF value[1] = "|"
    THEN <<"\\", "|">> \o Tail(value)
    ELSE <<value[1]>> \o escapePipes_First(Tail(value))

RECURSIVE escapePipes(_)
\* value.replace(/\|/g, '\\$&')
escapePipes(value) ==
    IF value = <<>>
    THEN <<>>
    ELSE IF value[1] = "|"
    THEN <<"\\", "|">> \o escapePipes(Tail(value))
    ELSE <<value[1]>> \o escapePipes(Tail(value))

\* state.stack.includes(construct)
includes(constructs, construct) ==
    \E k \in 1..Len(constructs) : constructs[k] = construct

inlineCodeWithTable(node, constructs) ==
    LET value == defaultInlineCode(node)
    IN  IF includes(constructs, "tableCell")
        THEN escapePipes(value)
        ELSE value

RECURSIVE safe(_)
\* state.safe on the text of a cell: of the unsafe patterns only those
\* with inConstruct: 'tableCell' match the characters of the model.  A pipe
\* gets a backslash, a line feed becomes a character reference.
safe(value) ==
    IF value = <<>>
    THEN <<>>
    ELSE (CASE value[1] = "|" -> <<"\\", "|">>
            [] value[1] = "\n" -> <<"&", "#", "x", "A", ";">>
            [] OTHER -> <<value[1]>>)
         \o safe(Tail(value))

\* state.containerPhrasing(node, info): the children, each through the
\* handler of its type, one after the other.
containerPhrasing(node, constructs) ==
    Join([k \in 1..Len(node.children) |->
            IF node.children[k].type = "inlineCode"
            THEN inlineCodeWithTable(node.children[k], constructs)
            ELSE safe(node.children[k].value)],
         <<>>)

handleTableCell(node, constructs) ==
    containerPhrasing(node, constructs \o <<"tableCell", "phrasing">>)

handleTableRowAsData(node, constructs) ==
    [k \in 1..Len(node.children) |->
        handleTableCell(node.children[k], constructs \o <<"tableRow">>)]

RECURSIVE Rows(_)
\* The rows handleTableAsData visits: a child that is a row, or the rows of
\* a child that is a section, in order.
Rows(secs) ==
    IF secs = <<>>
    THEN <<>>
    ELSE (IF Head(secs).type = "tableRow"
          THEN <<Head(secs)>>
          ELSE Head(secs).children)
         \o Rows(Tail(secs))

RECURSIVE SectionRows(_)
\* Variant: children that are rows are passed over.
SectionRows(secs) ==
    IF secs = <<>>
    THEN <<>>
    ELSE (IF Head(secs).type = "tableRow"
          THEN <<>>
          ELSE Head(secs).children)
         \o SectionRows(Tail(secs))

\* Variant: a row that is a direct child of the table is skipped.
handleTableAsData_Sections(node, constructs) ==
    [k \in 1..Len(SectionRows(node.children)) |->
        handleTableRowAsData(SectionRows(node.children)[k],
                             constructs \o <<"table">>)]

handleTableAsData(node, constructs) ==
    [k \in 1..Len(Rows(node.children)) |->
        handleTableRowAsData(Rows(node.children)[k], constructs \o <<"table">>)]

serializeData(matrix, align, settings) ==
    markdownTable(matrix, [align |-> align,
                           alignDelimiters |-> settings.alignDelimiters,
                           padding |-> settings.padding])

handleTable(node, constructs, settings) ==
    serializeData(handleTableAsData(node, constructs), node.align, settings)

\* value.indexOf('\n'), counted from 1; 0 when there is none
indexOf(value, ch) ==
    IF \E k \in 1..Len(value) : value[k] = ch
    THEN CHOOSE k \in 1..Len(value) :
            value[k] = ch /\ \A q \in 1..(k - 1) : value[q] # ch
    ELSE 0

\* Variant: the value is returned whole.
handleTableRow_Whole(node, constructs, settings) ==
    serializeData(<<handleTableRowAsData(node, constructs)>>, <<>>, settings)

handleTableRow(node, constructs, settings) ==
    LET row == handleTableRowAsData(node, constructs)
        value == serializeData(<<row>>, <<>>, settings)
    IN  SubSeq(value, 1, indexOf(value, "\n") - 1)

-----------------------------------------------------------------------------
(* Reading a table back.  The text is what markdown-table writes: every    *)
(* line starts and ends with a pipe, the second line is the delimiter row. *)
(* gfmTable() of micromark-extension-gfm-table turns it into tokens; what  *)
(* the model knows of it is what the tests show: a pipe after an odd run   *)
(* of backslashes does not end a cell, the spaces around the content of a  *)
(* cell are no part of it, a cell with nothing between its pipes is a      *)
(* ColspanLeft marker, a cell that holds '>' a ColspanRight marker, a cell *)
(* that holds '^' a Rowspan marker.  The handlers of the builder make the  *)
(* nodes and transformTable runs on the table.                             *)

RECURSIVE Backslashes(_, _)
\* The number of backslashes in a row that end at position k of value.
Backslashes(value, k) ==
    IF k >= 1 /\ value[k] = "\\" THEN 1 + Backslashes(value, k - 1) ELSE 0

\* The positions of the line feeds of a string.
Breaks(value) == {k \in 1..Len(value) : value[k] = "\n"}

\* The position of the n-th line feed; 0 for n = 0, one past the end of the
\* string when it has fewer.
Break(value, n) ==
    IF n = 0
    THEN 0
    ELSE IF n > Cardinality(Breaks(value))
    THEN Len(value) + 1
    ELSE CHOOSE k \in Breaks(value) :
            Cardinality({q \in Breaks(value) : q <= k}) = n

\* The lines of a string.
Lines(value) ==
    [n \in 1..(Cardinality(Breaks(value)) + 1) |->
        SubSeq(value, Break(value, n - 1) + 1, Break(value, n) - 1)]

\* The pipes of a line that end a cell.
Bars(line) ==
    {k \in 1..Len(line) : line[k] = "|" /\ Backslashes(line, k - 1) % 2 = 0}

\* The n-th position of a set of positions.
Nth(S, n) == CHOOSE k \in S : Cardinality({q \in S : q <= k}) = n

\* What stands between the pipes of a line, cell by cell.
cellsOf(line) ==
    [n \in 1..(Cardinality(Bars(line)) - 1) |->
        SubSeq(line, Nth(Bars(line), n) + 1, Nth(Bars(line), n + 1) - 1)]

Inked(value) == {k \in 1..Len(value) : value[k] # " "}

\* The value without the spaces before and after.
trim(value) ==
    IF Inked(value) = {}
    THEN <<>>
    ELSE SubSeq(value, CHOOSE k \in Inked(value) : \A q \in Inked(value) : k <= q,
                Maximum(Inked(value)))

\* _align of a cell of the delimiter row.
toAlign(cell) ==
    LET t == trim(cell)
    IN  IF t = <<>> THEN "none"
        ELSE IF t[1] = ":" /\ t[Len(t)] = ":" /\ Len(t) > 1 THEN "center"
        ELSE IF t[1] = ":" THEN "left"
        ELSE IF t[Len(t)] = ":" THEN "right"
        ELSE "none"

RECURSIVE Str(_)
\* The string of a sequence of characters.
Str(value) == IF value = <<>> THEN "" ELSE Head(value) \o Str(Tail(value))

RECURSIVE characterEscape(_)
\* A backslash before a punctuation character stands for that character.
characterEscape(value) ==
    IF value = <<>>
    THEN <<>>
    ELSE IF value[1] = "\\" /\ Len(value) >= 2
            /\ value[2] \in {"\\", "|", ">", "^"}
    THEN <<value[2]>> \o characterEscape(SubSeq(value, 3, Len(value)))
    ELSE <<value[1]>> \o characterEscape(Tail(value))

\* The nodes the handlers push for the tokens of one cell: a marker node
\* for a marker token (data.inTableCell is set in a section), the text
\* node of the default handlers for anything else.
nodesOf(cell) ==
    IF cell = <<>>
    THEN <<Marker(mdastTypes.tableColspanLeft)>>
    ELSE IF trim(cell) = <<>>
    THEN <<>>
    ELSE IF trim(cell) = <<">">>
    THEN <<Marker(mdastTypes.tableColspanRight)>>
    ELSE IF \A k \in 1..Len(trim(cell)) : trim(cell)[k] = "^"
    THEN <<Marker(mdastTypes.tableRowspan)>>
    ELSE <<Text(Str(characterEscape(trim(cell))))>>

\* enterRow, and enterHeader or enterCell for each of its cells.
rowOf(line, sec, r, hName) ==
    [type |-> "tableRow",
     children |-> [c \in 1..Len(cellsOf(line)) |->
                     NewCell(<<sec, r, c>>, hName, nodesOf(cellsOf(line)[c]))],
     data |-> [hName |-> "tr"]]

\* The table the builder makes of the text, before the transform.
compile(text) ==
    LET lines == Lines(text)
        token == [type |-> "table",
                  _align |-> [c \in 1..Len(cellsOf(lines[2])) |->
                                 toAlign(cellsOf(lines[2])[c])]]
        head == [type |-> mdastTypes.tableHead,
                 children |-> <<rowOf(lines[1], 1, 1, "th")>>,
                 data |-> [hName |-> "thead"]]
        body == [type |-> mdastTypes.tableBody,
                 children |-> [r \in 1..(Len(lines) - 2) |->
                                 rowOf(lines[r + 2], 2, r, "td")],
                 data |-> [hName |-> "tbody"]]
    IN  [TableNode(token) EXCEPT
            !.children = IF Len(lines) = 2 THEN <<head>> ELSE <<head, body>>]

\* fromMarkdown(text, {extensions: [gfmTable()],
\*                      mdastExtensions: [gfmTableFromMarkdown()]})
fromMarkdown(text) == transformTable(compile(text)).table

-----------------------------------------------------------------------------
(* The trees handed to the serializer: a table whose children are rows, or *)
(* one body section, or a head section of one row and a body section with  *)
(* the other rows; a cell holds text and inline code.  One node is         *)
(* serialized in a run.                                                    *)

InlineCode(v) == [type |-> "inlineCode", value |-> v]

\* The children of a cell of a table or a row.
Phrasing == {<<>>,
             <<Text(<<"|", "\n">>)>>,
             <<Text(<<"a">>), InlineCode(<<"|">>)>>}

\* The align of a table; <<>> stands for an empty and for an absent align.
SerAligns == {<<>>, <<"left">>, <<Null, "right">>, <<"center", Null, "left">>}

Layouts == {"rows", "body", "head"}

\* The constructs state.stack can hold when an inline code is reached.
Stacks == {<<>>,
           <<"paragraph", "phrasing">>,
           <<"tableCell", "phrasing">>,
           <<"table", "tableRow", "tableCell", "phrasing", "emphasis">>}

SerRow(cells) ==
    [type |-> "tableRow",
     children |-> [c \in 1..Len(cells) |->
                     [type |-> "tableCell", children |-> cells[c]]]]

SerTable(layout, align, shape, flat) ==
    LET rows == [r \in 1..Len(shape) |->
                    SerRow([c \in 1..shape[r] |->
                               flat[SumTo(shape, r - 1) + c]])]
        head == [type |-> mdastTypes.tableHead, children |-> <<rows[1]>>]
        body(from) == [type |-> mdastTypes.tableBody,
                       children |-> SubSeq(rows, from, Len(rows))]
    IN  [type |-> "table",
         align |-> align,
         children |-> CASE layout = "rows" -> rows
                        [] layout = "body" -> <<body(1)>>
                        [] OTHER -> IF Len(rows) = 1
                                    THEN <<head>>
                                    ELSE <<head, body(2)>>]

\* What a handler does to state.stack, call by call.  state.enter(name)
\* pushes the construct and returns the function that pops it; render stands
\* for state.containerPhrasing, which reads the stack.
Enter(construct) == [op |-> "enter", construct |-> construct]

Exit(construct) == [op |-> "exit", construct |-> construct]

Render == [op |-> "render", construct |-> ""]

\* Variant: subexit() is not called.
cellCalls_NoSubexit(node) ==
    <<Enter("tableCell"), Enter("phrasing"), Render, Exit("tableCell")>>

\* handleTableCell
cellCalls(node) ==
    <<Enter("tableCell"), Enter("phrasing"), Render,
      Exit("phrasing"), Exit("tableCell")>>

\* handleTableRowAsData
rowCalls(node) ==
    <<Enter("tableRow")>>
    \o Join([k \in 1..Len(node.children) |-> cellCalls(node.children[k])], <<>>)
    \o <<Exit("tableRow")>>

\* handleTableAsData
tableCalls(node) ==
    <<Enter("table")>>
    \o Join([k \in 1..Len(Rows(node.children)) |->
                rowCalls(Rows(node.children)[k])], <<>>)
    \o <<Exit("table")>>

Calls(handler, node) ==
    CASE handler = "table" -> tableCalls(node)
      [] handler = "tableRow" -> rowCalls(node)
      [] OTHER -> cellCalls(node)

\* The record of a call: the handler, the options of the extension, the
\* node, the info handleTableCell hands to containerPhrasing, the calls to
\* state.enter and the functions it returned, the result.
Call(handler, options, node, value) ==
    [handler |-> handler,
     options |-> options,
     node |-> node,
     calls |-> Calls(handler, node),
     info |-> [before |-> gfmTableToMarkdown(options).around,
               after |-> gfmTableToMarkdown(options).around],
     value |-> value]

\* toMarkdown(table, {extensions: [gfmTableToMarkdown(options)]})
toMarkdownTable ==
    /\ pc = "serialize"
    /\ ser.handler = "none"
    /\ \E options \in Options, layout \in Layouts, align \in SerAligns,
          shape \in Shapes :
          \E flat \in [1..SumTo(shape, Len(shape)) -> Phrasing] :
             LET node == SerTable(layout, align, shape, flat)
             IN  ser' = Call("table", options, node,
                             handleTable(node, <<>>, gfmTableToMarkdown(options)))
    /\ UNCHANGED <<treeVars, buildVars, hast>>

\* toMarkdown(tableRow, {extensions: [gfmTableToMarkdown(options)]})
toMarkdownRow ==
    /\ pc = "serialize"
    /\ ser.handler = "none"
    /\ \E options \in Options, n \in 0..MaxCells :
          \E cells \in [1..n -> Phrasing] :
             LET node == SerRow(cells)
             IN  ser' = Call("tableRow", options, node,
                             handleTableRow(node, <<>>, gfmTableToMarkdown(options)))
    /\ UNCHANGED <<treeVars, buildVars, hast>>

\* toMarkdown(tableCell, {extensions: [gfmTableToMarkdown(options)]})
toMarkdownCell ==
    /\ pc = "serialize"
    /\ ser.handler = "none"
    /\ \E options \in Options,
          children \in Phrasing \cup {<<InlineCode(v)>> : v \in CodeValues} :
          LET node == [type |-> "tableCell", children |-> children]
          IN  ser' = Call("tableCell", options, node, handleTableCell(node, <<>>))
    /\ UNCHANGED <<treeVars, buildVars, hast>>

\* An inline code is reached with the constructs around it on state.stack.
toMarkdownInlineCode ==
    /\ pc = "serialize"
    /\ ser.handler = "none"
    /\ \E constructs \in Stacks, v \in CodeValues :
          ser' = [handler |-> "inlineCode",
                  constructs |-> constructs,
                  node |-> InlineCode(v),
                  value |-> inlineCodeWithTable(InlineCode(v), constructs)]
    /\ UNCHANGED <<treeVars, buildVars, hast>>

\* No table is under transformation while a tree is being serialized.
InitSerializer ==
    /\ table = [type |-> "table", align |-> <<>>, children |-> <<>>,
                data |-> [hName |-> "table"]]
    /\ grid = table
    /\ pc = "serialize"
    /\ m = 0 /\ i = 0 /\ j = 0
    /\ toBeDeleted = <<>>

NextSer ==
    \/ toMarkdownTable \/ toMarkdownRow \/ toMarkdownCell
    \/ toMarkdownInlineCode

InitSer == InitSerializer /\ InitBuild /\ InitOut

SpecSer == InitSer /\ [][NextSer]_vars

-----------------------------------------------------------------------------
(* A table is written and read back: toMarkdown with the extension of this *)
(* package, then fromMarkdown with the paired extensions.  The table is    *)
(* rectangular, every row has as many cells as align has entries, each     *)
(* cell holds one text, and the first row is the head, as in the tables    *)
(* the builder makes.                                                      *)

TripChars == {"a", "|", "^", ">"}

TripContent == {<<Text(<<ch>>)>> : ch \in TripChars}

\* The aligns of a table of n columns.
TripAligns(n) ==
    {align \in SerAligns : Len(align) = n} \cup {[k \in 1..n |-> Null]}

\* rows by columns
Rectangles ==
    {shape \in Shapes : \A r \in 1..Len(shape) : shape[r] = shape[1]}

toMarkdownAndBack ==
    /\ pc = "serialize"
    /\ ser.handler = "none"
    /\ \E options \in Options, shape \in Rectangles :
          \E align \in TripAligns(shape[1]),
             flat \in [1..SumTo(shape, Len(shape)) -> TripContent] :
             LET node == SerTable("head", align, shape, flat)
                 value == handleTable(node, <<>>, gfmTableToMarkdown(options))
             IN  ser' = [handler |-> "roundTrip",
                         options |-> options,
                         node |-> node,
                         value |-> value,
                         tree |-> fromMarkdown(value)]
    /\ UNCHANGED <<treeVars, buildVars, hast>>

NextTrip == toMarkdownAndBack

SpecTrip == InitSer /\ [][NextTrip]_vars

-----------------------------------------------------------------------------
(* Vocabulary of the properties.                                           *)

\* The places <<section, row, column>> of the grid span resolution found.
Places ==
    UNION {UNION {{<<s, r, c>> :
                     c \in 1..Len(grid.children[s].children[r].children)} :
                  r \in 1..Len(grid.children[s].children)} :
           s \in 1..Len(grid.children)}

IsPlace(p) ==
    /\ p[1] \in 1..Len(grid.children)
    /\ p[2] \in 1..Len(grid.children[p[1]].children)
    /\ p[3] \in 1..Len(grid.children[p[1]].children[p[2]].children)

Before(p) == grid.children[p[1]].children[p[2]].children[p[3]]

Width(p) == Len(grid.children[p[1]].children[p[2]].children)

\* The cells of the row of p as they are now.
Now(p) == table.children[p[1]].children[p[2]].children

Present(p) == \E k \in 1..Len(Now(p)) : Now(p)[k].id = p

After(p) == Now(p)[CHOOSE k \in 1..Len(Now(p)) : Now(p)[k].id = p]

Sole(cell, type) == Len(cell.children) = 1 /\ cell.children[1].type = type

\* The row the cell loop is in and the row above it, before and after a step.
Row == table.children[m].children[i].children

RowAfter == table'.children[m].children[i].children

Above == table.children[m].children[i - 1].children

AboveAfter == table'.children[m].children[i - 1].children

IsMarker(cell) ==
    \/ Sole(cell, "tableColspanRight")
    \/ Sole(cell, "tableColspanLeft")
    \/ Sole(cell, "tableRowspan")

Left(p, n) == <<p[1], p[2], p[3] - n>>

Right(p, n) == <<p[1], p[2], p[3] + n>>

Up(p, n) == <<p[1], p[2] - n, p[3]>>

Down(p, n) == <<p[1], p[2] + n, p[3]>>

RECURSIVE RunLeft(_, _)
\* How many ColspanRight markers stand in a row immediately left of p.
RunLeft(p, type) ==
    IF p[3] > 1 /\ Sole(Before(Left(p, 1)), type)
    THEN 1 + RunLeft(Left(p, 1), type)
    ELSE 0

RECURSIVE RunRight(_, _)
\* How many markers of the type stand in a row immediately right of p.
RunRight(p, type) ==
    IF IsPlace(Right(p, 1)) /\ Sole(Before(Right(p, 1)), type)
    THEN 1 + RunRight(Right(p, 1), type)
    ELSE 0

RECURSIVE RunDown(_, _)
\* How many markers of the type stand in a column immediately below p.
RunDown(p, type) ==
    IF IsPlace(Down(p, 1)) /\ Sole(Before(Down(p, 1)), type)
    THEN 1 + RunDown(Down(p, 1), type)
    ELSE 0

\* The cells that take the colspan of the ColspanRight markers on their left:
\* a cell that is no such marker, or the last cell of the row.
TakesFromLeft(p) ==
    /\ RunLeft(p, "tableColspanRight") >= 1
    /\ (~Sole(Before(p), "tableColspanRight") \/ p[3] = Width(p))

\* The ColspanLeft markers a cell absorbs from its right.
FromRight(p) ==
    IF Sole(Before(p), "tableColspanRight")
    THEN 0
    ELSE RunRight(p, "tableColspanLeft")

-----------------------------------------------------------------------------
\* The first cell right of column col that is no ColspanRight marker.
FirstTaker(cells, col) ==
    CHOOSE t \in (col + 1)..Len(cells) :
        /\ ~Sole(cells[t], "tableColspanRight")
        /\ \A u \in (col + 1)..(t - 1) : Sole(cells[u], "tableColspanRight")

C1_Step ==
    (pc = "cell" /\ Sole(Row[j], "tableColspanRight")) =>
        IF j = Len(Row)
        THEN /\ RowAfter[j].children = <<Text(">")>>
             /\ toBeDeleted' = toBeDeleted
             /\ \A k \in 1..Len(Row) : k # j => RowAfter[k] = Row[k]
        ELSE /\ \E t \in (j + 1)..Len(Row) : ~Sole(Row[t], "tableColspanRight")
             /\ RowAfter[FirstTaker(Row, j)].colspan =
                   OrOne(Row[FirstTaker(Row, j)].colspan) + 1
             /\ toBeDeleted' = Append(toBeDeleted, <<i, j>>)
             /\ Len(RowAfter) = Len(Row)
             /\ \A k \in 1..Len(Row) :
                   (k < j \/ k > FirstTaker(Row, j)) => RowAfter[k] = Row[k]

C1_Final ==
    pc = "done" =>
        \A p \in Places :
            /\ Sole(Before(p), "tableColspanRight") =>
                  IF p[3] = Width(p)
                  THEN Present(p) /\ After(p).children = <<Text(">")>>
                  ELSE ~Present(p)
            /\ (TakesFromLeft(p) /\ Present(p)) =>
                  /\ After(p).colspan =
                        1 + RunLeft(p, "tableColspanRight") + FromRight(p)
                  /\ After(p).data.hProperties.colspan = After(p).colspan

\* C1: when the cell loop visits a cell whose only child is a ColspanRight
\* marker, then if it is the last cell of its row its child becomes the
\* text '>' and it is not listed for deletion; otherwise it is listed for
\* deletion and the first cell to its right that is no ColspanRight marker
\* gains exactly 1 colspan.  When resolution has finished the former cells
\* are in their rows, the latter are gone, and a cell with k such markers
\* immediately on its left holds colspan 1 + k (plus 1 for every ColspanLeft
\* marker it absorbed from its right).
C1_ColspanRight == [][C1_Step /\ C1_Final']_vars

\* A row <<CR, CR, x>> has been resolved: x took both markers.
C1_Witness ==
    /\ pc = "done"
    /\ \E p \in Places :
          /\ TakesFromLeft(p) /\ Present(p)
          /\ RunLeft(p, "tableColspanRight") = 2
          /\ After(p).colspan = 3
          /\ Len(Now(p)) = 1

-----------------------------------------------------------------------------
\* The cells that take the rowspan of the Rowspan markers below them: a cell
\* that is no such marker, or a cell of the first row of its section.
TakesFromBelow(p) ==
    /\ RunDown(p, "tableRowspan") >= 1
    /\ (~Sole(Before(p), "tableRowspan") \/ p[2] = 1)

C2_Step ==
    (pc = "cell" /\ Sole(Row[j], "tableRowspan")) =>
        IF i = 1
        THEN /\ RowAfter[j].children = <<Text("^")>>
             /\ RowAfter[j].rowspan = Row[j].rowspan
             /\ toBeDeleted' = toBeDeleted
        ELSE j <= Len(Above) =>
                /\ pc' # "threw"
                /\ AboveAfter[j].rowspan =
                      OrOne(Above[j].rowspan) + OrOne(Row[j].rowspan)
                /\ AboveAfter[j].data.hProperties.rowspan = AboveAfter[j].rowspan
                /\ toBeDeleted' = Append(toBeDeleted, <<i, j>>)
                /\ \A k \in 1..Len(Above) :
                      k # j => AboveAfter[k] = Above[k]

C2_Final ==
    pc = "done" =>
        \A p \in Places :
            /\ (Sole(Before(p), "tableRowspan") /\ p[2] > 1) => ~Present(p)
            /\ (TakesFromBelow(p) /\ Present(p)) =>
                  /\ After(p).rowspan = 1 + RunDown(p, "tableRowspan")
                  /\ After(p).data.hProperties.rowspan = After(p).rowspan
                  /\ Sole(Before(p), "tableRowspan") =>
                        After(p).children = <<Text("^")>>

-----------------------------------------------------------------------------
\* A ColspanLeft marker that is not merged: first of its row, or right of a
\* ColspanRight marker.
Conflicting(p) ==
    p[3] = 1 \/ Sole(Before(Left(p, 1)), "tableColspanRight")

C4_Step ==
    (pc = "cell" /\ Sole(Row[j], "tableColspanLeft")) =>
        IF j = 1 \/ Sole(Row[j - 1], "tableColspanRight")
        THEN /\ RowAfter[j].children = <<>>
             /\ toBeDeleted' = toBeDeleted
             /\ \A k \in 1..Len(Row) : k # j => RowAfter[k] = Row[k]
        ELSE /\ toBeDeleted' = Append(toBeDeleted, <<i, j>>)
             /\ RowAfter[j - 1].colspan =
                   OrOne(Row[j - 1].colspan) + OrOne(Row[j].colspan)
             /\ RowAfter[j - 1].data.hProperties.colspan =
                   RowAfter[j - 1].colspan

C4_Final ==
    pc = "done" =>
        \A p \in Places :
            Sole(Before(p), "tableColspanLeft") =>
                IF Conflicting(p)
                THEN Present(p) /\ After(p).children = <<>>
                ELSE ~Present(p)

\* C4: when the cell loop visits a cell whose only child is a ColspanLeft
\* marker, then if it is the first cell of its row or its left neighbour is
\* a sole ColspanRight marker, its children are emptied, it is not listed
\* for deletion and no other cell of the row changes; otherwise it is listed
\* for deletion and the left neighbour's colspan becomes its own (default 1)
\* plus the marker cell's (default 1).  When resolution has finished the
\* former cells are in their rows, empty, and the latter are gone.
C4_ColspanLeft == [][C4_Step /\ C4_Final']_vars

\* A row <<CL, x, CL>> has been resolved: the first marker is an empty
\* cell, the second is gone and x holds colspan 2.
C4_Witness ==
    /\ pc = "done"
    /\ \E p \in Places :
          /\ p[3] = 1
          /\ Sole(Before(p), "tableColspanLeft")
          /\ Present(p) /\ After(p).children = <<>>
    /\ \E p \in Places :
          /\ Sole(Before(p), "tableColspanLeft")
          /\ ~Conflicting(p)
          /\ ~Present(p)
          /\ Present(Left(p, 1))
          /\ After(Left(p, 1)).colspan = 2

\* C5: after transformTable no cell of any row has a span marker as its
\* only child.
C5_NoMarkerLeft ==
    pc = "done" =>
        \A s \in 1..Len(table.children) :
            \A r \in 1..Len(table.children[s].children) :
                \A c \in 1..Len(table.children[s].children[r].children) :
                    ~IsMarker(table.children[s].children[r].children[c])

\* A table that held a marker of each kind has been transformed; one marker
\* was demoted and one was deleted.
C5_Witness ==
    /\ pc = "done"
    /\ \E p \in Places : Sole(Before(p), "tableColspanRight")
    /\ \E p \in Places : Sole(Before(p), "tableColspanLeft")
    /\ \E p \in Places : Sole(Before(p), "tableRowspan")
    /\ \E p \in Places : IsMarker(Before(p)) /\ Present(p)
    /\ \E p \in Places : IsMarker(Before(p)) /\ ~Present(p)

C6_Step ==
    pc = "transform" =>
        /\ Len(table'.children) = Len(table.children)
        /\ \A s \in 1..Len(table.children) :
              /\ Len(table'.children[s].children) = Len(table.children[s].children)
              /\ \A r \in 1..Len(table.children[s].children) :
                    LET old == table.children[s].children[r].children
                        new == table'.children[s].children[r].children
                    IN  IF Len(old) < Len(table.align)
                        THEN /\ Len(new) = Len(table.align)
                             /\ SubSeq(new, 1, Len(old)) = old
                             /\ \A k \in (Len(old) + 1)..Len(new) :
                                   /\ new[k].children = <<>>
                                   /\ new[k].colspan = 0
                                   /\ new[k].rowspan = 0
                                   /\ new[k].data.hProperties = NoProperties
                        ELSE new = old

\* C6: the first phase of transformTable appends align.length - n cells
\* without children, colspan, rowspan or properties to every row of n cells
\* with n < align.length, and leaves every other row as it is.
C6_PadRows == [][C6_Step]_vars

\* Padding is over: one row was short and got an empty last cell, another
\* had the declared number of cells and kept them.
C6_Witness ==
    /\ pc = "cell"
    /\ toBeDeleted = <<>>
    /\ table = grid
    /\ \E p \in Places :
          /\ Before(p).children = <<>>
          /\ p[3] = Len(grid.align) /\ p[3] = Width(p)
    /\ \E p \in Places :
          /\ Width(p) >= Len(grid.align)
          /\ \A c \in 1..Width(p) : Before(<<p[1], p[2], c>>).children # <<>>

OwnAlign(p) ==
    IF p[3] <= Len(grid.align) /\ grid.align[p[3]] # Null
    THEN grid.align[p[3]]
    ELSE ""

\* C8: once resolution has finished every cell still in the tree that
\* stood at column j carries align = align[j] when that is left, right or
\* center, whether or not it took part in a merge, and no align property
\* when align[j] is null or j is beyond the declared columns.
C8_AlignByColumn ==
    pc = "done" =>
        \A p \in Places :
            Present(p) => After(p).data.hProperties.align = OwnAlign(p)

\* A cell that absorbed a marker carries its column's alignment, and a cell
\* beyond the declared columns carries none.
C8_Witness ==
    /\ pc = "done"
    /\ \E p \in Places :
          /\ TakesFromLeft(p) /\ Present(p)
          /\ After(p).data.hProperties.align = "left"
    /\ \E p \in Places :
          /\ p[3] > Len(grid.align)
          /\ Present(p)
          /\ After(p).data.hProperties.align = ""

\* The columns whose ColspanRight markers the cell at p absorbed.
Absorbed(p) == {p[3] - n : n \in 1..RunLeft(p, "tableColspanRight")}

\* C9 as stated: the alignment of every absorbed column is put on the cell
\* that receives the ColspanRight merge.
C9_Original ==
    pc = "done" =>
        \A p \in Places :
            (TakesFromLeft(p) /\ Present(p)) =>
                \A c \in Absorbed(p) :
                    (c <= Len(grid.align) /\ grid.align[c] # Null) =>
                        After(p).data.hProperties.align = grid.align[c]

\* C9, amended: a ColspanRight merge changes the colspan of the receiving
\* neighbour only; the alignment of the absorbed column is set on the
\* marker cell, which is deleted, and the neighbour keeps the alignment of
\* its own column (none when that column is unaligned).
C9_KeepsOwnAlign ==
    pc = "done" =>
        \A p \in Places :
            (TakesFromLeft(p) /\ Present(p)) =>
                /\ After(p).data.hProperties.align = OwnAlign(p)
                /\ After(p).colspan > 1

\* A cell of an unaligned column absorbed a right-aligned column and
\* carries no align property.
C9_Witness ==
    /\ pc = "done"
    /\ \E p \in Places :
          /\ TakesFromLeft(p) /\ Present(p)
          /\ \E c \in Absorbed(p) :
                c <= Len(grid.align) /\ grid.align[c] = "right"
          /\ OwnAlign(p) = ""
          /\ After(p).data.hProperties.align = ""
          /\ After(p).colspan = 2

-----------------------------------------------------------------------------
\* The backslashes that escape a pipe: those right before a pipe that end
\* an odd run of backslashes.
Escapes(value) ==
    {k \in 1..(Len(value) - 1) :
        value[k + 1] = "|" /\ Backslashes(value, k) % 2 = 1}

RECURSIVE Without(_, _, _)
\* value from position k on, without the positions of drop.
Without(value, drop, k) ==
    IF k > Len(value)
    THEN <<>>
    ELSE (IF k \in drop THEN <<>> ELSE <<value[k]>>) \o Without(value, drop, k + 1)

\* C10: the inTable flag is set exactly while a table node is open, and the
\* inline code node closed last has lost the backslashes that escape a pipe
\* if its exit fell between a table's enter and exit, and has its value
\* unchanged otherwise, also after a table has been closed.
C10_OnlyInTable ==
    /\ inTable <=> TableOpen
    /\ code.value = IF code.open
                    THEN Without(code.raw, Escapes(code.raw), 1)
                    ELSE code.raw
    /\ code.value # code.raw <=> (code.open /\ Escapes(code.raw) # {})

\* An inline code with an escaped pipe was closed after a table had been
\* exited, and kept its value.
C10_Witness ==
    /\ code.after >= 1
    /\ ~code.open
    /\ Escapes(code.raw) # {}
    /\ code.value = code.raw
    /\ ~inTable

-----------------------------------------------------------------------------
RECURSIVE MatchAt(_, _)
\* The scan of /\\([\\|])/g from left to right finds a match that starts at
\* position k: a backslash followed by a backslash or a pipe, and not the
\* second character of the match before it.
MatchAt(value, k) ==
    /\ k >= 1 /\ k < Len(value)
    /\ value[k] = "\\"
    /\ value[k + 1] \in {"\\", "|"}
    /\ ~MatchAt(value, k - 1)

\* The backslashes the scan finds immediately before a pipe.
BeforePipe(value) ==
    {k \in 1..Len(value) : MatchAt(value, k) /\ value[k + 1] = "|"}

\* C11: the value of an inline code node closed inside a table is the text
\* collected for it, scanned from left to right, with every backslash that
\* the scan finds immediately before a pipe taken out, so that the pair
\* becomes one pipe; a backslash followed by a backslash stays as the same
\* two characters and its second backslash escapes nothing; every other
\* character is kept, in order.
C11_Unescape ==
    code.open =>
        /\ code.value = Without(code.raw, BeforePipe(code.raw), 1)
        /\ Len(code.value) = Len(code.raw) - Cardinality(BeforePipe(code.raw))
        /\ \A k \in 1..Len(code.raw) :
              (MatchAt(code.raw, k) /\ code.raw[k + 1] = "\\") =>
                  /\ k \notin BeforePipe(code.raw)
                  /\ (k + 1) \notin BeforePipe(code.raw)
        /\ (BeforePipe(code.raw) = {}) => code.value = code.raw

\* Inside a table the text \\| was closed as the same three characters.
C11_Witness ==
    /\ code.open
    /\ code.raw = <<"\\", "\\", "|">>
    /\ code.value = <<"\\", "\\", "|">>

-----------------------------------------------------------------------------
C13_Step ==
    (tables' = tables + 1) =>
        IF "_align" \in DOMAIN opened'.token
        THEN LET given == opened'.token._align
                 node == opened'.nodes[1]
             IN  /\ Len(opened'.nodes) = 1
                 /\ stack' = Append(stack, "table")
                 /\ node.type = "table"
                 /\ node.children = <<>>
                 /\ Len(node.align) = Len(given)
                 /\ \A k \in 1..Len(given) :
                       /\ given[k] = "none" => node.align[k] = Null
                       /\ given[k] # "none" => node.align[k] = given[k]
                 /\ pc' = "build"
        ELSE /\ opened'.nodes = <<>>
             /\ stack' = stack
             /\ pc' = "raised"

\* C13: when the table token carries _align, enterTable pushes one table
\* node whose align has the length and order of _align, with null for every
\* 'none' and left, right and center as given; when the token carries no
\* _align the handler raises at once and pushes no node.
C13_EnterTable == [][C13_Step]_vars

\* A table was entered with _align = ['none', 'center'] and its node holds
\* align = [null, 'center'].
C13_Witness ==
    /\ Top = "table"
    /\ "_align" \in DOMAIN opened.token
    /\ opened.token._align = <<"none", "center">>
    /\ Len(opened.nodes) = 1
    /\ opened.nodes[1].align = <<Null, "center">>

-----------------------------------------------------------------------------
\* C14 as stated: a marker token makes a node only when the node on top of
\* the stack is a cell; in a section or a row, between cells, and outside
\* a table it makes none.
C14_OnlyInCell ==
    (pc = "build" /\ marker # "") =>
        IF Top = marker
        THEN Len(stack) >= 2 /\ stack[Len(stack) - 1] = "tableCell"
        ELSE Top # "tableCell"

-----------------------------------------------------------------------------
\* The elements among the children of an element, in order.
RECURSIVE Elements(_)
Elements(children) ==
    IF children = <<>>
    THEN <<>>
    ELSE (IF Head(children).type = "element" THEN <<Head(children)>> ELSE <<>>)
            \o Elements(Tail(children))

\* The children are n elements with a line feed before, between and after.
Wrapped(children, n) ==
    /\ Len(children) = 2 * n + 1
    /\ \A k \in 1..Len(children) :
          IF k % 2 = 1
          THEN children[k] = LineFeed
          ELSE children[k].type = "element"

\* The element carries the node's hName and no property.
Container(element, node, names) ==
    /\ element.type = "element"
    /\ element.tagName = node.data.hName
    /\ element.tagName \in names
    /\ DOMAIN element.properties = {}
    /\ Wrapped(element.children, Len(node.children))

\* The element of a cell: hName, the properties the cell holds, and its
\* children as they are.
CellElement(element, cell) ==
    LET held == cell.data.hProperties
    IN  /\ element.type = "element"
        /\ element.tagName = cell.data.hName
        /\ element.tagName \in {"td", "th"}
        /\ "align" \in DOMAIN element.properties <=> held.align # ""
        /\ "colspan" \in DOMAIN element.properties <=> held.colspan # 0
        /\ "rowspan" \in DOMAIN element.properties <=> held.rowspan # 0
        /\ \A key \in DOMAIN element.properties :
              element.properties[key] = held[key]
        /\ Len(element.children) = Len(cell.children)
        /\ \A k \in 1..Len(cell.children) :
              element.children[k] = [type |-> "text",
                                     value |-> cell.children[k].value]

\* C19: the element made of the table, of a section, of a row and of a cell
\* has the node's data.hName as its tagName (table; thead or tbody by the
\* section's type; tr; th for a cell entered as a header, td for any other)
\* and exactly the entries of data.hProperties as its properties (none for
\* table, section and row); the child elements of table, section and row
\* stand between line feeds, the children of a cell are not wrapped.
C19_ApplyData ==
    pc = "projected" =>
        /\ Len(hast) = 1
        /\ Container(hast[1], table, {"table"})
        /\ \A s \in 1..Len(table.children) :
              LET sec == table.children[s]
                  secEl == hast[1].children[2 * s]
              IN  /\ Container(secEl, sec,
                        IF sec.type = mdastTypes.tableHead
                        THEN {"thead"} ELSE {"tbody"})
                  /\ \A r \in 1..Len(sec.children) :
                        LET row == sec.children[r]
                            rowEl == secEl.children[2 * r]
                        IN  /\ Container(rowEl, row, {"tr"})
                            /\ \A c \in 1..Len(row.children) :
                                  LET cell == row.children[c]
                                  IN  CellElement(rowEl.children[2 * c], cell)

\* A head row <<CR, x>> over a body with a Rowspan marker in its first row
\* was projected: a th with colspan 2 and a td holding '^'.
C19_Witness ==
    /\ pc = "projected"
    /\ Len(hast[1].children) = 5
    /\ \E k \in 1..Len(hast[1].children[2].children[2].children) :
          LET element == hast[1].children[2].children[2].children[k]
          IN  /\ element.type = "element"
              /\ element.tagName = "th"
              /\ "colspan" \in DOMAIN element.properties
              /\ element.properties["colspan"] = 2
              /\ "align" \in DOMAIN element.properties
    /\ \E k \in 1..Len(hast[1].children[4].children[2].children) :
          LET element == hast[1].children[4].children[2].children[k]
          IN  /\ element.type = "element"
              /\ element.tagName = "td"
              /\ element.children = <<[type |-> "text", value |-> "^"]>>

\* C20 as stated: in the projection a row of the body holds at most
\* align.length cell elements; the cells at the columns beyond are left out.
C20_RowCut ==
    pc = "projected" =>
        \A s \in 1..Len(table.children) :
            table.children[s].type = mdastTypes.tableBody =>
                \A r \in 1..Len(table.children[s].children) :
                    Len(Elements(hast[1].children[2 * s].children[2 * r].children))
                        <= Len(table.align)

-----------------------------------------------------------------------------
\* How many of the first k characters of a string are pipes.
PipesUpTo(value, k) == Cardinality({q \in 1..k : value[q] = "|"})

\* Every character of given stands in value, in order, and every pipe has
\* one more character before it, a backslash.
PipesPrefixed(value, given) ==
    /\ Len(value) = Len(given) + PipesUpTo(given, Len(given))
    /\ \A k \in 1..Len(given) :
          /\ value[k + PipesUpTo(given, k)] = given[k]
          /\ given[k] = "|" => value[k + PipesUpTo(given, k) - 1] = "\\"

\* C12: when 'tableCell' is among the constructs on the serializer's stack,
\* inlineCodeWithTable returns the default rendering of the inline code
\* with exactly one backslash put before every pipe, adjacent and repeated
\* pipes included, and every other character, a backslash included, as it
\* is; when 'tableCell' is not on the stack it returns the default
\* rendering unchanged.  The inline code of a cell is rendered with
\* 'tableCell' on the stack.
C12_EscapePipes ==
    /\ ser.handler = "inlineCode" =>
          IF \E k \in 1..Len(ser.constructs) : ser.constructs[k] = "tableCell"
          THEN PipesPrefixed(ser.value, defaultInlineCode(ser.node))
          ELSE ser.value = defaultInlineCode(ser.node)
    /\ (/\ ser.handler = "tableCell"
        /\ Len(ser.node.children) = 1
        /\ ser.node.children[1].type = "inlineCode") =>
          PipesPrefixed(ser.value, defaultInlineCode(ser.node.children[1]))

\* The inline code ||\ was rendered under a cell: each pipe has its own
\* backslash, the backslash of the value has none.
C12_Witness ==
    /\ ser.handler = "inlineCode"
    /\ ser.constructs = <<"tableCell", "phrasing">>
    /\ ser.node.value = <<"|", "|", "\\">>
    /\ ser.value = <<Grave, "\\", "|", "\\", "|", "\\", Grave>>

-----------------------------------------------------------------------------
NotSpace(ch) == ch # " "

NoSpaces(line) == SelectSeq(line, NotSpace)

\* The rows of a table, those of the head first.
TableRows(node) ==
    IF node.children[1].type = "tableRow"
    THEN node.children
    ELSE IF Len(node.children) = 1
    THEN node.children[1].children
    ELSE node.children[1].children \o node.children[2].children

Columns(node) ==
    Maximum({Len(TableRows(node)[r].children) :
                r \in 1..Len(TableRows(node))})

\* The line of a row without its padding: the rendered cells between pipes,
\* an empty cell for every column the row does not reach.
RowText(row, columns) ==
    <<"|">> \o
    Join([c \in 1..columns |->
             (IF c <= Len(row.children)
              THEN handleTableCell(row.children[c], <<"table", "tableRow">>)
              ELSE <<>>) \o <<"|">>],
         <<>>)

\* The line is an alignment-delimiter line of so many columns.
IsDelimiter(line, columns) ==
    /\ columns >= 1
    /\ \A k \in 1..Len(line) : line[k] \in {"|", " ", "-", ":"}
    /\ Cardinality({k \in 1..Len(line) : line[k] = "|"}) = columns + 1
    /\ Cardinality({k \in 1..Len(line) : line[k] = "-"}) >= columns

C16_HeadlessFirst ==
    (/\ ser.handler = "table"
     /\ Len(ser.node.children) = 1
     /\ ser.node.children[1].type = mdastTypes.tableBody) =>
        LET rows == TableRows(ser.node)
            lines == Lines(ser.value)
            columns == Columns(ser.node)
        IN  /\ Len(lines) = Len(rows) + 1
            /\ IsDelimiter(lines[1], columns)
            /\ \A k \in 1..Len(rows) :
                  NoSpaces(lines[k + 1]) = RowText(rows[k], columns)

-----------------------------------------------------------------------------
\* The options the documentation states as the defaults.
StatedDefaults == [tableCellPadding |-> "true", tablePipeAlign |-> "true"]

\* What the handler of the call returns for the node under the options.
Rendered(handler, node, options) ==
    CASE handler = "table" ->
            handleTable(node, <<>>, gfmTableToMarkdown(options))
      [] handler = "tableRow" ->
            handleTableRow(node, <<>>, gfmTableToMarkdown(options))
      [] OTHER -> handleTableCell(node, <<>>)

\* C17 as stated: with no options the serializer is configured as with
\* {tableCellPadding: true, tablePipeAlign: true}: cells are padded and
\* delimiters aligned alike, the boundary character handed to the renderer
\* of a cell's content as before and after is the same, and so is the
\* output.
C17_DefaultsAsStated ==
    (ser.handler \in {"table", "tableRow", "tableCell"}
        /\ ser.options = NoOptions) =>
        LET given == gfmTableToMarkdown(ser.options)
            stated == gfmTableToMarkdown(StatedDefaults)
        IN  /\ (given.padding # "false") = (stated.padding # "false")
            /\ (given.alignDelimiters # "false")
                  = (stated.alignDelimiters # "false")
            /\ ser.info.before = stated.around
            /\ ser.info.after = stated.around
            /\ ser.value = Rendered(ser.handler, ser.node, StatedDefaults)

-----------------------------------------------------------------------------
\* C18: handleTableRow returns the first line of what handleTable returns
\* for a table whose only child is the row: it holds no line feed and is no
\* alignment-delimiter line, and what it cuts off is one line, the
\* delimiter line; a row without cells gives the empty string.
C18_FirstLine ==
    ser.handler = "tableRow" =>
        LET whole == handleTable([type |-> "table", align |-> <<>>,
                                  children |-> <<ser.node>>],
                                 <<>>, gfmTableToMarkdown(ser.options))
            columns == Len(ser.node.children)
        IN  /\ ser.value = Lines(whole)[1]
            /\ \A k \in 1..Len(ser.value) : ser.value[k] # "\n"
            /\ ~IsDelimiter(ser.value, columns)
            /\ NoSpaces(ser.value) =
                  IF columns = 0 THEN <<>> ELSE RowText(ser.node, columns)
            /\ Len(Lines(whole)) = 2
            /\ columns >= 1 => IsDelimiter(Lines(whole)[2], columns)

\* A row without cells was serialized to the empty string.
C18_Witness ==
    /\ ser.handler = "tableRow"
    /\ ser.node.children = <<>>
    /\ ser.value = <<>>

-----------------------------------------------------------------------------
\* The cell at column k of the row above is as resolution found it, but for
\* the rowspan it took from the row below: not aligned, not demoted, not
\* merged into, and in its place.
Untouched(k) ==
    LET p == <<m, i - 1, k>>
    IN  /\ Above[k].id = p
        /\ Above[k].children = Before(p).children
        /\ Above[k].colspan = 0
        /\ Above[k].data.hProperties.align = ""
        /\ Above[k].data.hProperties.colspan = 0

C22_Order ==
    /\ pc = "transform" =>
          (pc' = "cell" /\ m' = Len(table.children)
              /\ i' = Len(table.children[m'].children)
              /\ j' = Len(table'.children[m'].children[i'].children))
    /\ (pc = "cell" /\ pc' = "cell") =>
          /\ m' = m
          /\ IF j > 1
             THEN i' = i /\ j' = j - 1
             ELSE i' = i - 1 /\ j' = Len(Above)
    /\ (pc = "cell" /\ pc' = "splice") => (m' = m /\ i = 1 /\ j = 1)
    /\ (pc = "splice" /\ pc' = "cell") =>
          /\ m' = m - 1
          /\ i' = Len(table.children[m'].children)
          /\ j' = Len(table.children[m'].children[i'].children)

C22_Merge ==
    (pc = "cell" /\ i > 1 /\ Sole(Row[j], "tableRowspan")) =>
        /\ Len(Above) = Width(<<m, i - 1, 1>>)
        /\ \A k \in 1..Len(Above) : Untouched(k)
        /\ \A q \in 1..Len(toBeDeleted) : toBeDeleted[q][1] >= i
        /\ Len(Row) = Width(<<m, i, 1>>)
        /\ Row[j].id = <<m, i, j>>

\* C22: processSpanMarkers visits the sections from the last to the first,
\* the rows of a section from the last to the first and the cells of a row
\* from the right to the left; when a Rowspan marker of row i is merged no
\* cell of row i - 1 has been visited, demoted or deleted, and none of row
\* i has been deleted, so the column index is the one resolution found.
C22_ReverseOrder == [][C22_Order /\ C22_Merge]_vars

\* The second row <<RS, CL>> of a section has been visited: both cells are
\* listed for deletion, the cell above took the rowspan and is next.
C22_Witness ==
    /\ pc = "cell" /\ i = 1
    /\ Len(toBeDeleted) = 2
    /\ toBeDeleted[2] = <<2, 1>>
    /\ Sole(grid.children[m].children[2].children[1], "tableRowspan")
    /\ Row[1].rowspan = 2
    /\ Row[1].id = <<m, 1, 1>>
    /\ Len(table.children[m].children[2].children) = 2

-----------------------------------------------------------------------------
\* The rows of the section under resolution, before and after a step.
SectionRowsNow == table.children[m].children

SectionRowsAfter == table'.children[m].children

C23_Batched ==
    \A s \in 1..Len(table.children) :
        \A r \in 1..Len(table.children[s].children) :
            Len(table'.children[s].children[r].children)
                < Len(table.children[s].children[r].children)
            => (pc = "splice" /\ s = m /\ toBeDeleted # <<>>
                    /\ r = Head(toBeDeleted)[1])

C23_Splice ==
    (pc = "splice" /\ toBeDeleted # <<>>) =>
        LET point == Head(toBeDeleted)
            cells == SectionRowsNow[point[1]].children
            p == <<m, point[1], point[2]>>
        IN  /\ point[2] <= Len(cells)
            /\ cells[point[2]].id = p
            /\ IsMarker(Before(p))
            /\ Len(SectionRowsAfter[point[1]].children) = Len(cells) - 1
            /\ \A k \in 1..(Len(cells) - 1) :
                  SectionRowsAfter[point[1]].children[k] =
                     IF k < point[2] THEN cells[k] ELSE cells[k + 1]
            /\ \A r \in 1..Len(SectionRowsNow) :
                  r # point[1] => SectionRowsAfter[r] = SectionRowsNow[r]
            /\ \A q \in 2..Len(toBeDeleted) :
                  \/ toBeDeleted[q][1] < point[1]
                  \/ /\ toBeDeleted[q][1] = point[1]
                     /\ toBeDeleted[q][2] < point[2]

\* C23: no cell leaves a row while the cells of its section are visited;
\* the points listed for a row are applied after that, from the highest
\* column index to the lowest, and each splice takes out the marker cell
\* that was listed, which still stands at the listed index, and no other.
C23_Deletions == [][C23_Batched /\ C23_Splice]_vars

\* A row <<x, CL, CL>> has lost both markers, the right one first: x is
\* left, with colspan 3.
C23_Witness ==
    /\ pc = "done"
    /\ \E p \in Places :
          /\ p[3] = 1 /\ Width(p) = 3
          /\ Sole(Before(Right(p, 1)), "tableColspanLeft")
          /\ Sole(Before(Right(p, 2)), "tableColspanLeft")
          /\ Len(Now(p)) = 1
          /\ Now(p)[1].id = p
          /\ Now(p)[1].colspan = 3

-----------------------------------------------------------------------------
C24_Step ==
    pc = "cell" =>
        /\ \A k \in 1..Len(Row) :
              (k # j \/ ~IsMarker(Row[j])) =>
                  RowAfter[k].children = Row[k].children
        /\ ~IsMarker(Row[j]) => toBeDeleted' = toBeDeleted
        /\ toBeDeleted' # toBeDeleted =>
              /\ toBeDeleted' = Append(toBeDeleted, <<i, j>>)
              /\ Len(Row[j].children) = 1
              /\ Row[j].children[1].type \in
                    {"tableColspanRight", "tableColspanLeft", "tableRowspan"}

C24_Final ==
    pc = "done" =>
        \A p \in Places :
            ~IsMarker(Before(p)) =>
                /\ Present(p)
                /\ After(p).children = Before(p).children

\* C24: a cell is listed for deletion or has its children replaced only
\* when it holds exactly one child and that child is a ColspanRight,
\* ColspanLeft or Rowspan marker; a cell without children and a cell that
\* holds a marker next to other content stay in their row with the children
\* they had, whatever stands around them.
C24_SoleMarkerOnly == [][C24_Step /\ C24_Final']_vars

\* A row <<CR, [CR a], []>> has been resolved: the cell with the marker and
\* the text took the colspan of the marker on its left and kept both
\* children, the empty cell is still there.
C24_Witness ==
    /\ pc = "done"
    /\ \E p \in Places :
          /\ p[3] = 2 /\ Width(p) = 3
          /\ Sole(Before(Left(p, 1)), "tableColspanRight")
          /\ Before(p).children =
                <<Marker(mdastTypes.tableColspanRight), Text("a")>>
          /\ Before(Right(p, 1)).children = <<>>
          /\ ~Present(Left(p, 1))
          /\ Present(p) /\ After(p).children = Before(p).children
          /\ After(p).colspan = 2
          /\ Present(Right(p, 1)) /\ After(Right(p, 1)).children = <<>>

-----------------------------------------------------------------------------
RECURSIVE Colspans(_)
\* The columns the cells take: the sum of their colspans, 1 where absent.
Colspans(cells) ==
    IF cells = <<>>
    THEN 0
    ELSE OrOne(Head(cells).colspan) + Colspans(Tail(cells))

\* No cell of the row of p held a sole Rowspan marker.
NoRowspanIn(p) ==
    \A c \in 1..Width(p) : ~Sole(Before(<<p[1], p[2], c>>), "tableRowspan")

\* C26: when resolution has finished, the colspans (default 1) of the cells
\* left in a row that held no Rowspan marker add up to the number of cells
\* the row had after padding, whatever ColspanLeft and ColspanRight markers
\* it held and in whatever order.
C26_ColspanSum ==
    pc = "done" =>
        \A p \in Places :
            NoRowspanIn(p) => Colspans(Now(p)) = Width(p)

\* The row <<CR, CL, CR>> has been resolved to an empty cell of colspan 2
\* and the text '>'.
C26_Witness ==
    /\ pc = "done"
    /\ \E p \in Places :
          /\ p[3] = 1 /\ Width(p) = 3
          /\ Sole(Before(p), "tableColspanRight")
          /\ Sole(Before(Right(p, 1)), "tableColspanLeft")
          /\ Sole(Before(Right(p, 2)), "tableColspanRight")
          /\ Len(Now(p)) = 2
          /\ Now(p)[1].children = <<>> /\ Now(p)[1].colspan = 2
          /\ Now(p)[2].children = <<Text(">")>> /\ Now(p)[2].colspan = 0

-----------------------------------------------------------------------------
\* C27 as stated: the rowspan of every deleted Rowspan marker ends up on a
\* cell of the final tree: the cell above a vertical run of n such markers
\* (a cell that is no Rowspan marker, or a cell of the first row) is still
\* in its row when resolution has finished and holds rowspan 1 + n.
C27_RowspanKept ==
    pc = "done" =>
        \A p \in Places :
            TakesFromBelow(p) =>
                /\ Present(p)
                /\ After(p).rowspan = 1 + RunDown(p, "tableRowspan")

-----------------------------------------------------------------------------
\* C30 as stated: a second run of transformTable on the table the first run
\* has left does not raise and leaves the table as it is: no cell is
\* appended, taken out, given another span or another alignment.
C30_Idempotent ==
    pc = "done" =>
        /\ ~transformTable(table).threw
        /\ transformTable(table).table = table

-----------------------------------------------------------------------------
\* The enter of the open marker token pushed a node.
Honoured == marker # "" /\ Top = marker

C28_Step ==
    (pc = "build" /\ marker # "" /\ marker' = "") =>
        /\ pc' = "build"
        /\ stack' = IF Honoured
                    THEN SubSeq(stack, 1, Len(stack) - 1)
                    ELSE stack

\* C28 as stated: the exit of a marker token leaves the stack as it was
\* before the enter of that token, whether the enter pushed a node or was
\* ignored, and the compilation goes on: after an ignored enter the exit
\* closes no node.
C28_MarkerPairs == [][C28_Step]_vars

-----------------------------------------------------------------------------
\* What stands between the two grave accents of a rendered inline code.
Fenced(value) == SubSeq(value, 2, Len(value) - 1)

\* C29 as stated: what inlineCodeWithTable writes for an inline code of a
\* cell, read again by exitCodeText inside a table, is the value of the
\* node, for every value made of backslashes, pipes and other characters.
C29_CodeRoundTrip ==
    /\ (ser.handler = "inlineCode" /\ includes(ser.constructs, "tableCell")) =>
          unescape(Fenced(ser.value)) = ser.node.value
    /\ (/\ ser.handler = "tableCell"
        /\ Len(ser.node.children) = 1
        /\ ser.node.children[1].type = "inlineCode") =>
          unescape(Fenced(ser.value)) = ser.node.children[1].value

-----------------------------------------------------------------------------
RECURSIVE replay(_, _, _)
\* state.stack after the calls from the k-th on, when it is s before them.
replay(calls, k, s) ==
    IF k > Len(calls)
    THEN s
    ELSE replay(calls, k + 1,
                CASE calls[k].op = "enter" -> Append(s, calls[k].construct)
                  [] calls[k].op = "exit" -> SubSeq(s, 1, Len(s) - 1)
                  [] OTHER -> s)

\* state.stack after the first k calls, when it was before at the start.
stackAfter(calls, k, before) == replay(SubSeq(calls, 1, k), 1, before)

\* The constructs that can be open when a table, row or cell is reached.
Outer == {<<>>, <<"listItem", "blockquote">>}

\* The cells whose content a handler renders.
CellsOf(handler, node) ==
    CASE handler = "table" ->
            SumTo([r \in 1..Len(Rows(node.children)) |->
                      Len(Rows(node.children)[r].children)],
                  Len(Rows(node.children)))
      [] handler = "tableRow" -> Len(node.children)
      [] OTHER -> 1

\* C25: whenever a handler of a table, a row or a cell has the content of a
\* cell rendered, 'phrasing' is on top of the construct stack and
\* 'tableCell' right under it; it does so once for every cell; every exit
\* pops the construct that the matching enter pushed, the last entered
\* first; and when the handler returns the stack is what it was before the
\* call.
C25_Constructs ==
    ser.handler \in {"table", "tableRow", "tableCell"} =>
        \A before \in Outer :
            /\ stackAfter(ser.calls, Len(ser.calls), before) = before
            /\ Cardinality({k \in 1..Len(ser.calls) :
                               ser.calls[k].op = "render"})
                  = CellsOf(ser.handler, ser.node)
            /\ \A k \in 1..Len(ser.calls) :
                  LET s == stackAfter(ser.calls, k - 1, before)
                  IN  /\ Len(s) >= Len(before)
                      /\ SubSeq(s, 1, Len(before)) = before
                      /\ ser.calls[k].op = "render" =>
                            /\ Len(s) >= Len(before) + 2
                            /\ s[Len(s)] = "phrasing"
                            /\ s[Len(s) - 1] = "tableCell"
                      /\ ser.calls[k].op = "exit" =>
                            /\ Len(s) > Len(before)
                            /\ s[Len(s)] = ser.calls[k].construct

\* A table of a head row and a body row of two cells was serialized: three
\* cells were rendered under table, tableRow, tableCell, phrasing.
C25_Witness ==
    /\ ser.handler = "table"
    /\ Len(ser.node.children) = 2
    /\ CellsOf("table", ser.node) = 3
    /\ Len(ser.calls) = 21
    /\ ser.calls[5].op = "render"
    /\ stackAfter(ser.calls, 4, <<>>) =
          <<"table", "tableRow", "tableCell", "phrasing">>
    /\ stackAfter(ser.calls, 21, <<>>) = <<>>

\* mdast-util-to-string of the children of a cell after fromMarkdown.
RECURSIVE toString(_)
toString(children) ==
    IF children = <<>> THEN "" ELSE Head(children).value \o toString(Tail(children))

\* The texts of a table handed to toMarkdown, row by row, cell by cell.
TextsBefore(node) ==
    [r \in 1..Len(Rows(node.children)) |->
        [c \in 1..Len(Rows(node.children)[r].children) |->
            Str(Join([k \in 1..Len(Rows(node.children)[r].children[c].children) |->
                        Rows(node.children)[r].children[c].children[k].value],
                     <<>>))]]

\* The texts of the table fromMarkdown returns, row by row, cell by cell.
TextsAfter(node) ==
    [r \in 1..Len(Rows(node.children)) |->
        [c \in 1..Len(Rows(node.children)[r].children) |->
            toString(Rows(node.children)[r].children[c].children)]]

\* C21: a rectangular table without span markers that is serialized and
\* built again from that text has the same cell texts in the same row and
\* column positions and the same align.
C21_RoundTrip ==
    ser.handler = "roundTrip" =>
        /\ TextsAfter(ser.tree) = TextsBefore(ser.node)
        /\ ser.tree.align = ser.node.align

\* The round trip of a table whose texts hold no character a marker is made of.
C21_Plain ==
    (/\ ser.handler = "roundTrip"
     /\ \A r \in 1..Len(TextsBefore(ser.node)) :
           \A c \in 1..Len(TextsBefore(ser.node)[r]) :
              TextsBefore(ser.node)[r][c] \in {"a", "|"}) =>
        /\ TextsAfter(ser.tree) = TextsBefore(ser.node)
        /\ ser.tree.align = ser.node.align

====
